---------------------------- MODULE Spec2Model ----------------------------
(***************************************************************************)
(* lspindex: a run of main() (src/src/lspindex.ts) against a language      *)
(* server, followed by asGXL() (src/src/gxl.ts).                           *)
(*                                                                         *)
(* Representation.  A path string is the sequence of its segments between  *)
(* separators, i.e. what String.split(path.sep) returns: "/r/a.py" is      *)
(* <<"", "r", "a.py">>, the empty string is <<"">>, "/" is <<"", "">>, the *)
(* relative path "pkg/b.py" is <<"pkg", "b.py">>.  A line of text is the   *)
(* sequence of its characters.  A symbol object of the JavaScript heap is  *)
(* a reference <<path, index>>; heap maps references to records, so that   *)
(* two arrays holding the same object see the same (mutable) record.       *)
(***************************************************************************)
EXTENDS Integers, Sequences, FiniteSets, TLC

\* ------------------------------------------------------------------ bounds

\* Most reference locations the provider returns, over the whole run.
MaxRefs == 2

\* ---------------------------------------------------------------- generic

NONE == "undefined"
NoRange == [start |-> [line |-> -1, character |-> -1],
            end |-> [line |-> -1, character |-> -1]]
NoUri == [scheme |-> NONE, path |-> <<>>]

Last(s) == s[Len(s)]
Front(s) == SubSeq(s, 1, Len(s) - 1)
Range(s) == {s[i] : i \in 1..Len(s)}

\* Variant that keeps every element
SelectSeqOfAll(s, keep) == s

\* Array.prototype.filter
RECURSIVE SelectSeqOf(_, _)
SelectSeqOf(s, keep) ==
  IF s = <<>> THEN <<>>
  ELSE (IF Head(s) \in keep THEN <<Head(s)>> ELSE <<>>) \o SelectSeqOf(Tail(s), keep)

\* ------------------------------------------------------------------ paths

IsAbsolute(p) == Len(p) >= 2 /\ p[1] = ""

\* path.resolve(p) of a path without "." or ".." segments: the empty string
\* resolves to the working directory.
Resolve(p, cwd) ==
  IF p = <<"">> THEN cwd
  ELSE IF IsAbsolute(p) THEN p
  ELSE cwd \o p

\* The segments of an absolute path after the leading "", "/" having none.
Parts(p) == IF p = <<"", "">> THEN <<>> ELSE Tail(p)

RECURSIVE CommonPrefixLen(_, _)
CommonPrefixLen(a, b) ==
  IF a = <<>> \/ b = <<>> \/ Head(a) # Head(b) THEN 0
  ELSE 1 + CommonPrefixLen(Tail(a), Tail(b))

\* path.relative(from, to): both are resolved first.
Relative(from, to, cwd) ==
  LET f == Parts(Resolve(from, cwd))
      t == Parts(Resolve(to, cwd))
      c == CommonPrefixLen(f, t)
      ups == [i \in 1..(Len(f) - c) |-> ".."]
      rest == SubSeq(t, c + 1, Len(t))
  IN IF f = t THEN <<"">> ELSE ups \o rest

\* path.basename
Basename(p) == Last(p)

\* path.join(p, ".."), normalised
JoinDotDot(p) ==
  IF p = <<"">> THEN <<"..">>
  ELSE IF IsAbsolute(p)
       THEN (IF Len(p) = 2 THEN <<"", "">> ELSE Front(p))
       ELSE (IF Len(p) = 1 THEN <<".">> ELSE Front(p))

\* relativeDirPath === ".." || relativeDirPath.startsWith(".." + path.sep)
IsOutside(rel) == rel[1] = ".."

\* url.pathToFileURL(p).href and url.fileURLToPath(uri)
PathToFileURL(p, cwd) == [scheme |-> "file", path |-> Resolve(p, cwd)]
FileURLToPath(uri) == uri.path


\* ------------------------------------------------------------------- text

Def_ == <<"d", "e", "f", " ">>
Class_ == <<"c", "l", "a", "s", "s", " ">>
Import_ == <<"i", "m", "p", "o", "r", "t">>

\* \w of a JavaScript regular expression
WordChars ==
  {"a", "b", "c", "d", "e", "f", "g", "h", "i", "j", "k", "l", "m", "n", "o",
   "p", "q", "r", "s", "t", "u", "v", "w", "x", "y", "z", "F", "_",
   "0", "1", "2", "3", "4", "5", "6", "7", "8", "9"}

\* String.prototype.slice(from)
Slice(line, from) == SubSeq(line, from + 1, Len(line))

\* String.prototype.startsWith
StartsWith(text, prefix) ==
  Len(text) >= Len(prefix) /\ SubSeq(text, 1, Len(prefix)) = prefix

\* /\bimport\b/.test(lineContent)
ImportRegexTest(line) ==
  \E i \in 1..Len(line) :
    /\ StartsWith(Slice(line, i - 1), Import_)
    /\ IF i = 1 THEN TRUE ELSE line[i - 1] \notin WordChars
    /\ IF i + Len(Import_) > Len(line) THEN TRUE
       ELSE line[i + Len(Import_)] \notin WordChars

\* The text every discovered file holds (content.split("\n")).
Content ==
  << Class_ \o <<"F", "o", "o", ":">>,                  \* class Foo:
     <<" ">> \o Def_ \o <<"m", "(", ")", ":">>,         \*  def m():
     Import_ \o <<" ", "f">>,                           \* import f
     <<"x", "=", "1">>,                                 \* x=1
     Def_ \o <<"g", "(", ")", ":">> \o Import_ \o <<"s">> >> \* def g():imports

\* content.split("\n")[line], lines counted from 0
LineContent(line) == Content[line + 1]

\* ---------------------------------------------------------------- symbols

Pos(l, c) == [line |-> l, character |-> c]
Rng(sl, sc, el, ec) == [start |-> Pos(sl, sc), end |-> Pos(el, ec)]

\* Position.isBeforeOrEqual
PosLE(a, b) == a.line < b.line \/ (a.line = b.line /\ a.character <= b.character)

\* Range.contains(range) of @sourcegraph/extension-api-classes: both ends inside,
\* equal bounds included.
RangeContains(outer, inner) ==
  PosLE(outer.start, inner.start) /\ PosLE(inner.end, outer.end)

\* A SymbolInformation ("info": name, kind, containerName, location {uri, range})
\* or a DocumentSymbol ("tree": name, kind, range, selectionRange; no uri).
InfoSymbol(kind, name, container, uri, range) ==
  [form |-> "info", kind |-> kind, name |-> name, containerName |-> container,
   uri |-> uri, range |-> range, selectionRange |-> NoRange]
TreeSymbol(kind, name, range, selectionRange) ==
  [form |-> "tree", kind |-> kind, name |-> name, containerName |-> NONE,
   uri |-> NoUri, range |-> range, selectionRange |-> selectionRange]

\* DocumentSymbol.is(symbol)
IsDocumentSymbol(s) == s.form = "tree"

\* DocumentSymbol.is(symbol) ? symbol.range : symbol.location.range
SymbolRange(s) == s.range

\* DocumentSymbol.is(symbol) ? symbol.selectionRange : symbol.location.range
AnchorRange(s) == IF IsDocumentSymbol(s) THEN s.selectionRange ELSE s.range

\* Variant with the case of SymbolKind.Variable, which the source has
\* commented out
getGXLSymbolKindWithVariable(s) ==
  CASE s.kind \in {"File", "Module"} -> "File"
    [] s.kind = "Class" -> "Class"
    [] s.kind \in {"Field", "Property"} -> "Member"
    [] s.kind = "Method" -> "Method"
    [] s.kind = "Function" -> "Routine"
    [] s.kind = "Variable" -> "Variable"
    [] OTHER -> NONE

\* getGXLSymbolKind
getGXLSymbolKind(s) ==
  CASE s.kind \in {"File", "Module"} -> "File"
    [] s.kind = "Class" -> "Class"
    [] s.kind \in {"Field", "Property"} -> "Member"
    [] s.kind = "Method" -> "Method"
    [] s.kind = "Function" -> "Routine"
    [] OTHER -> NONE

\* hashObject(symbol): a hash of the whole record, taken as collision free.
hashObject(s) == s

\* symbolId
symbolId(s) == <<s.kind, getGXLSymbolKind(s), s.name, hashObject(s)>>

\* The kinds from least to most specific: the array of symbolSizes before
\* .reverse().
KindsBySize ==
  <<"Package", "Namespace", "File", "Module", "Class", "Function", "Enum",
    "Interface", "Method", "Constructor", "Field", "Property", "EnumMember",
    "Variable", "TypeParameter", "Constant", "String", "Number", "Boolean",
    "Array", "Object", "Key", "Null", "Struct", "Event", "Operator">>

\* symbolSizes[kind]: the index of kind in the reversed array
symbolSizes(kind) ==
  LET i == CHOOSE j \in 1..Len(KindsBySize) : KindsBySize[j] = kind
  IN Len(KindsBySize) - i

\* ----------------------------------------------------------------- inputs

\* A name that is no text: the JSON value true
BooleanTrue == "true (boolean)"

\* typeof value, for the value of a name field
TypeOf(value) ==
  CASE value = NONE -> "undefined"
    [] value = BooleanTrue -> "boolean"
    [] OTHER -> "string"

\* What the provider answers to a DocumentSymbolRequest, by program.  The
\* malformed program has one symbol whose name is missing (in a.py) or is no
\* text (in any other file).
ProgramSymbols(prog, uri) ==
  LET class == InfoSymbol("Class", "Foo", NONE, uri, Rng(0, 0, 1, 9))
      meth == InfoSymbol("Method", "m", "Foo", uri, Rng(1, 1, 1, 9))
      imp == InfoSymbol("Function", "f", "f", uri, Rng(2, 7, 2, 8))
      var == InfoSymbol("Variable", "x", NONE, uri, Rng(3, 0, 3, 3))
      tree == TreeSymbol("Function", "g", Rng(4, 0, 4, 15), Rng(4, 4, 4, 5))
      bad == InfoSymbol("Class",
                        IF Basename(FileURLToPath(uri)) = "a.py" THEN NONE ELSE BooleanTrue,
                        NONE, uri, Rng(3, 0, 3, 3))
  IN CASE prog = "nested" -> <<class, meth>>
       [] prog = "malformed" -> <<bad>>
       [] prog = "nestedRev" -> <<meth, class>>
       [] prog = "misc" -> <<imp, var, tree>>
       [] prog = "empty" -> <<>>

Programs == {"nested", "nestedRev", "misc", "empty", "malformed"}

\* (rootPath, working directory) of the run
Environments ==
  { [root |-> <<"", "h", "r">>, cwd |-> <<"", "h", "r">>],
    [root |-> <<"", "r">>, cwd |-> <<"", "r">>],
    [root |-> <<"", "r">>, cwd |-> <<"", "r", "pkg">>] }

\* The files the pattern matches, relative to rootPath
RelFiles == {<<"a.py">>, <<"pkg", "sub", "c.py">>}

\* --ignore: base names the ignore patterns match
IgnoredNames == {"gen.py"}

\* micromatch.isMatch(filePath, ignore)
IsIgnored(path) == Basename(path) \in IgnoredNames

\* Where the provider may locate a reference
RefRanges == {Rng(1, 7, 1, 8), Rng(3, 0, 3, 1)}


\* ------------------------------------------------------------------ state

VARIABLES
  rootPath,       \* path.resolve(argv.rootPath)
  cwd,            \* process.cwd()
  files,          \* what glob.stream yields, in the order it yields it
  programs,       \* file -> the program the provider sees in it
  pc,             \* where main() stands
  fileIdx,        \* number of files whose loop iteration has completed
  docSymbols,     \* the docSymbols array of the current iteration (references)
  symIdx,         \* number of docSymbols the reference loop has visited
  heap,           \* reference -> symbol record
  symbols,        \* Map from URI to symbols, in insertion order
  allReferences,  \* Map from definition to reference locations, in insertion order
  symbolToSymbolReferences, \* Map from definition to referencing symbols
  inflight,       \* the request awaiting its response, or NoRequest
  sent,           \* every request sent so far, in order
  refLog,         \* the provider's answers to reference requests so far
  logged,         \* what the mapping loop logged
  gxl,            \* what asGXL built
  outFile,        \* "absent", or "written" once writeFile has completed
  run,            \* 1 in the first run of the pipeline, 2 in a repetition
  prevGxl,        \* in a repetition: what the first run built
  exitCode,       \* process.exitCode, 0 while it is not set
  filePattern,    \* whether argv.filePattern is given
  childProcess,   \* "running", or "killed" once childProcess.kill() was called
  usingIdx        \* number of functions of using the finally block has run

vars ==
  <<rootPath, cwd, files, programs, pc, fileIdx, docSymbols, symIdx, heap,
    symbols, allReferences, symbolToSymbolReferences, inflight, sent, refLog,
    logged, gxl, outFile, run, prevGxl, exitCode, filePattern, childProcess,
    usingIdx>>

inputVars == <<rootPath, cwd, programs, filePattern>>
runVars == <<run, prevGxl>>

\* The cleanup functions, in the order main() pushes them once the provider
\* process is spawned: childProcess.kill(), then the ShutdownRequest
using == <<"kill", "shutdown">>

NoSymbolRef == [path |-> <<>>, idx |-> -1]
\* A request: its type and parameters; symbol names the symbol object a
\* ReferencesRequest was built for and is not part of the message.
NoRequest ==
  [type |-> NONE, uri |-> NoUri, position |-> Pos(-1, -1), symbol |-> NoSymbolRef]
NoReference == [uri |-> NoUri, range |-> NoRange]
EmptyHeap == [r \in {} |-> r]
EmptyGxl ==
  [nodes |-> <<>>, edges |-> <<>>, nodeIds |-> {}, edgeNodeIds |-> <<>>,
   dropped |-> <<>>, reports |-> <<>>, nodesTotal |-> -1, edgesTotal |-> -1,
   errors |-> <<>>]

LogEntry(level, msg, def, by, reference) ==
  [level |-> level, msg |-> msg, def |-> def, by |-> by, reference |-> reference]

\* catch (err) { logger.fatal(err); process.exitCode = 1 }: what is logged
Fatal(err) == LogEntry("fatal", err, NoSymbolRef, NoSymbolRef, NoReference)

\* Sequences without repetition over a set
RECURSIVE Orders(_)
Orders(S) ==
  IF S = {} THEN {<<>>}
  ELSE UNION {{<<x>> \o o : o \in Orders(S \ {x})} : x \in S}

AbsFile(root, rel) == root \o rel

RunStart ==
  /\ pc = "initialize"
  /\ fileIdx = 0
  /\ docSymbols = <<>>
  /\ symIdx = 0
  /\ heap = EmptyHeap
  /\ symbols = <<>>
  /\ allReferences = <<>>
  /\ symbolToSymbolReferences = <<>>
  /\ inflight = NoRequest
  /\ sent = <<>>
  /\ logged = <<>>
  /\ gxl = EmptyGxl
  /\ outFile = "absent"
  /\ exitCode = 0
  /\ childProcess = "running"
  /\ usingIdx = 0

Init ==
  /\ \E env \in Environments :
       /\ rootPath = env.root
       /\ cwd = env.cwd
       /\ filePattern \in BOOLEAN
       /\ \E found \in SUBSET (IF filePattern THEN RelFiles ELSE {}) :
            /\ files \in Orders({AbsFile(env.root, rel) : rel \in found})
            /\ programs \in [{AbsFile(env.root, rel) : rel \in found} -> Programs]
  /\ refLog = <<>>
  /\ run = 1
  /\ prevGxl = EmptyGxl
  /\ RunStart

\* ------------------------------------------------------------ the store

StoreHas(st, uri) == \E i \in 1..Len(st) : st[i].uri = uri

\* Map.prototype.get, for a key the map has
StoreGet(st, uri) ==
  st[CHOOSE i \in 1..Len(st) : st[i].uri = uri].syms

\* Map.prototype.set: a new key is appended, an old one keeps its place
StoreSet(st, uri, syms) ==
  IF StoreHas(st, uri)
  THEN [i \in 1..Len(st) |->
          IF st[i].uri = uri THEN [uri |-> uri, syms |-> syms] ELSE st[i]]
  ELSE Append(st, [uri |-> uri, syms |-> syms])

\* The synthetic symbol of a directory (lspindex.ts:202-213)
DirectorySymbol(dir, uri) ==
  InfoSymbol("File", Basename(dir), Basename(JoinDotDot(dir)), uri, Rng(0, 0, 0, 0))

\* The "Add symbols for directories" loop: the (uri, dir) pairs it adds a
\* symbol for, given the keys the map has and the segments not yet popped.
RECURSIVE DirectoriesToAdd(_, _, _, _)
DirectoriesToAdd(keys, segments, root, wd) ==
  IF segments = <<>> \/ Last(segments) = "" THEN <<>>  \* pop() is falsy
  ELSE LET rest == Front(segments)
           dir == IF rest = <<>> THEN <<"">> ELSE rest   \* segments.join(sep)
           relativeDirPath == Relative(root, dir, wd)
           uri == PathToFileURL(dir, wd)
       IN IF IsOutside(relativeDirPath) THEN <<>>
          ELSE IF uri \in keys THEN DirectoriesToAdd(keys, rest, root, wd)
          ELSE <<[uri |-> uri, dir |-> dir]>>
                 \o DirectoriesToAdd(keys \cup {uri}, rest, root, wd)

DirRef(uri) == [path |-> FileURLToPath(uri), idx |-> 0]

\* The symbol main() pushes for the file itself (lspindex.ts:269-280)
FileSymbol(file, root, wd) ==
  LET relativePath == Relative(root, file, wd)
  IN InfoSymbol("File", Basename(relativePath), Basename(JoinDotDot(relativePath)),
                PathToFileURL(file, wd), Rng(0, 0, 0, 0))


\* ------------------------------------------------------------ the provider

\* Where the provider may locate a reference: at either range of a.py (which
\* the run may or may not have collected) or in the ignored gen.py.
Locations ==
  [uri : {PathToFileURL(AbsFile(rootPath, <<"a.py">>), cwd)}, range : RefRanges]
    \cup {[uri |-> PathToFileURL(AbsFile(rootPath, <<"gen.py">>), cwd),
           range |-> Rng(1, 7, 1, 8)]}

RECURSIVE TotalRefs(_)
TotalRefs(log) == IF log = <<>> THEN 0 ELSE Len(Head(log).answer) + TotalRefs(Tail(log))

\* What the provider sees of a reference request
ReferenceParams(request) == [uri |-> request.uri, position |-> request.position]

IsLogged(params) == \E i \in 1..Len(refLog) : refLog[i].params = params

\* The answers the provider may give to a reference request: the one it gave
\* to the same request before, or else any locations within the bound.
ReferenceAnswers(params) ==
  IF IsLogged(params)
  THEN {refLog[CHOOSE i \in 1..Len(refLog) : refLog[i].params = params].answer}
  ELSE UNION {[1..n -> Locations] : n \in 0..(MaxRefs - TotalRefs(refLog))}

\* ----------------------------------------------------------------- main()

Send(request) ==
  /\ inflight' = request
  /\ sent' = Append(sent, request)

\* connection.sendRequest(InitializeRequest.type, initParams)
SendInitialize ==
  /\ pc = "initialize"
  /\ Send([NoRequest EXCEPT !.type = "initialize"])
  /\ pc' = "awaitInitialize"
  /\ UNCHANGED <<inputVars, runVars, exitCode, childProcess, usingIdx,
                 files, fileIdx, docSymbols, symIdx, heap,
                 symbols, allReferences, symbolToSymbolReferences, refLog,
                 logged, gxl, outFile>>

\* The response, and what follows it up to the file loop: without a file
\* pattern main() logs a fatal message, sets the exit code and returns
RecvInitialize ==
  /\ pc = "awaitInitialize"
  /\ inflight' = NoRequest
  /\ IF filePattern
     THEN /\ pc' = "files"
          /\ UNCHANGED <<logged, exitCode>>
     ELSE /\ logged' = Append(logged, Fatal("No file pattern provided"))
          /\ exitCode' = 1
          /\ pc' = "cleanup"
  /\ UNCHANGED <<inputVars, runVars, childProcess, usingIdx,
                 files, fileIdx, docSymbols, symIdx, heap,
                 symbols, allReferences, symbolToSymbolReferences, sent, refLog,
                 gxl, outFile>>

\* for await (const file of files): the next file, and its DocumentSymbolRequest
SendDocumentSymbol ==
  /\ pc = "files"
  /\ fileIdx < Len(files)
  /\ Send([NoRequest EXCEPT !.type = "documentSymbol",
                            !.uri = PathToFileURL(files[fileIdx + 1], cwd)])
  /\ pc' = "awaitSymbols"
  /\ UNCHANGED <<inputVars, runVars, exitCode, childProcess, usingIdx,
                 files, fileIdx, docSymbols, symIdx, heap,
                 symbols, allReferences, symbolToSymbolReferences, refLog,
                 logged, gxl, outFile>>

\* The response: symbols.set(uri, docSymbols.filter(getGXLSymbolKind)) and the
\* whole "Add symbols for directories" loop.
RecvDocumentSymbol ==
  /\ pc = "awaitSymbols"
  /\ LET file == files[fileIdx + 1]
         uri == PathToFileURL(file, cwd)
         answer == ProgramSymbols(programs[file], uri)
         refs == [i \in 1..Len(answer) |-> [path |-> file, idx |-> i]]
         exported == {refs[i] : i \in {j \in 1..Len(answer) :
                                         getGXLSymbolKind(answer[j]) # NONE}}
         stored == StoreSet(symbols, uri, SelectSeqOf(refs, exported))
         dirs == DirectoriesToAdd({stored[i].uri : i \in 1..Len(stored)},
                                  file, rootPath, cwd)
     IN /\ docSymbols' = refs
        /\ symbols' = stored \o [i \in 1..Len(dirs) |->
                                   [uri |-> dirs[i].uri, syms |-> <<DirRef(dirs[i].uri)>>]]
        /\ heap' = [r \in DOMAIN heap \cup Range(refs)
                             \cup {DirRef(dirs[i].uri) : i \in 1..Len(dirs)} |->
                      IF r \in Range(refs) THEN answer[r.idx]
                      ELSE IF r \in DOMAIN heap THEN heap[r]
                      ELSE LET d == dirs[CHOOSE i \in 1..Len(dirs) : DirRef(dirs[i].uri) = r]
                           IN DirectorySymbol(d.dir, d.uri)]
  /\ inflight' = NoRequest
  /\ symIdx' = 0
  /\ pc' = "references"
  /\ UNCHANGED <<inputVars, runVars, exitCode, childProcess, usingIdx,
                 files, fileIdx, allReferences,
                 symbolToSymbolReferences, sent, refLog, logged, gxl, outFile>>

\* The symbol the reference loop stands at
CurrentSymbol == heap[docSymbols[symIdx + 1]]

\* Variant that indexes the lines one-based, reading the line below the
\* declaration (an empty line past the end of the file)
LineOfOneBased(s) ==
  LET l == AnchorRange(s).start.line + 2
  IN IF l \in DOMAIN Content THEN Content[l] ELSE <<>>

\* lineContent = content.split("\n")[range.start.line]
LineOf(s) == LineContent(AnchorRange(s).start.line)

\* if (!getGXLSymbolKind(symbol)) continue
SkipUnexported ==
  /\ pc = "references"
  /\ symIdx < Len(docSymbols)
  /\ getGXLSymbolKind(CurrentSymbol) = NONE
  /\ symIdx' = symIdx + 1
  /\ UNCHANGED <<inputVars, runVars, exitCode, childProcess, usingIdx,
                 files, pc, fileIdx, docSymbols, heap,
                 symbols, allReferences, symbolToSymbolReferences, inflight,
                 sent, refLog, logged, gxl, outFile>>

\* Don't get references on import bindings
SkipImport ==
  /\ pc = "references"
  /\ symIdx < Len(docSymbols)
  /\ getGXLSymbolKind(CurrentSymbol) # NONE
  /\ ImportRegexTest(LineOf(CurrentSymbol))
  /\ symIdx' = symIdx + 1
  /\ UNCHANGED <<inputVars, runVars, exitCode, childProcess, usingIdx,
                 files, pc, fileIdx, docSymbols, heap,
                 symbols, allReferences, symbolToSymbolReferences, inflight,
                 sent, refLog, logged, gxl, outFile>>

\* referencePosition.character after the two keyword adjustments
\* (lspindex.ts:237-246)
AdjustedCharacter(lineContent, character) ==
  LET afterDef ==
        IF StartsWith(Slice(lineContent, character), Def_)
        THEN character + Len(Def_) + 1 ELSE character
  IN IF StartsWith(Slice(lineContent, afterDef), Class_)
     THEN afterDef + Len(Class_) + 1 ELSE afterDef

\* The symbol after referencePosition.character was assigned: referencePosition
\* is range.start itself, an object of the symbol.
WithAnchorCharacter(s, character) ==
  IF IsDocumentSymbol(s)
  THEN [s EXCEPT !.selectionRange.start.character = character]
  ELSE [s EXCEPT !.range.start.character = character]

\* Variant that sends the ReferencesRequest and goes on to the next symbol
\* without awaiting the response
SendReferencesNoAwait ==
  /\ pc = "references"
  /\ symIdx < Len(docSymbols)
  /\ getGXLSymbolKind(CurrentSymbol) # NONE
  /\ LET start == AnchorRange(CurrentSymbol).start
         lineContent == LineOf(CurrentSymbol)
         character == AdjustedCharacter(lineContent, start.character)
     IN /\ ~ImportRegexTest(lineContent)
        /\ heap' = [heap EXCEPT ![docSymbols[symIdx + 1]] =
                                   WithAnchorCharacter(@, character)]
        /\ Send([type |-> "references",
                 uri |-> PathToFileURL(files[fileIdx + 1], cwd),
                 position |-> Pos(start.line, character),
                 symbol |-> docSymbols[symIdx + 1]])
  /\ symIdx' = symIdx + 1
  /\ UNCHANGED <<inputVars, runVars, exitCode, childProcess, usingIdx,
                 files, pc, fileIdx, docSymbols,
                 symbols, allReferences, symbolToSymbolReferences, refLog,
                 logged, gxl, outFile>>

\* The position adjustment and the ReferencesRequest
SendReferences ==
  /\ pc = "references"
  /\ symIdx < Len(docSymbols)
  /\ getGXLSymbolKind(CurrentSymbol) # NONE
  /\ LET start == AnchorRange(CurrentSymbol).start
         lineContent == LineOf(CurrentSymbol)
         character == AdjustedCharacter(lineContent, start.character)
     IN /\ ~ImportRegexTest(lineContent)
        /\ heap' = [heap EXCEPT ![docSymbols[symIdx + 1]] =
                                   WithAnchorCharacter(@, character)]
        /\ Send([type |-> "references",
                 uri |-> PathToFileURL(files[fileIdx + 1], cwd),
                 position |-> Pos(start.line, character),
                 symbol |-> docSymbols[symIdx + 1]])
  /\ pc' = "awaitReferences"
  /\ UNCHANGED <<inputVars, runVars, exitCode, childProcess, usingIdx,
                 files, fileIdx, docSymbols, symIdx,
                 symbols, allReferences, symbolToSymbolReferences, refLog,
                 logged, gxl, outFile>>

\* allReferences.set(symbol, references || [])
RecvReferences ==
  /\ pc = "awaitReferences"
  /\ \E answer \in ReferenceAnswers(ReferenceParams(inflight)) :
       /\ allReferences' = Append(allReferences,
                                  [def |-> docSymbols[symIdx + 1], refs |-> answer])
       /\ refLog' = IF IsLogged(ReferenceParams(inflight)) THEN refLog
                    ELSE Append(refLog, [params |-> ReferenceParams(inflight),
                                         answer |-> answer])
  /\ inflight' = NoRequest
  /\ symIdx' = symIdx + 1
  /\ pc' = "references"
  /\ UNCHANGED <<inputVars, runVars, exitCode, childProcess, usingIdx,
                 files, fileIdx, docSymbols, heap, symbols,
                 symbolToSymbolReferences, sent, logged, gxl, outFile>>

\* Add symbol for file: docSymbols.push(...), which ends the iteration
AddFileSymbol ==
  /\ pc = "references"
  /\ symIdx = Len(docSymbols)
  /\ LET file == files[fileIdx + 1]
         ref == [path |-> file, idx |-> Len(docSymbols) + 1]
     IN /\ docSymbols' = Append(docSymbols, ref)
        /\ heap' = [r \in DOMAIN heap \cup {ref} |->
                      IF r = ref THEN FileSymbol(file, rootPath, cwd) ELSE heap[r]]
  /\ fileIdx' = fileIdx + 1
  /\ pc' = "files"
  /\ UNCHANGED <<inputVars, runVars, exitCode, childProcess, usingIdx,
                 files, symIdx, symbols, allReferences,
                 symbolToSymbolReferences, inflight, sent, refLog, logged, gxl,
                 outFile>>


\* Variant that leaves the file loop whenever it stands between two files
FilesDoneEarly ==
  /\ pc = "files"
  /\ pc' = "mapping"
  /\ UNCHANGED <<inputVars, runVars, exitCode, childProcess, usingIdx,
                 files, fileIdx, docSymbols, symIdx, heap,
                 symbols, allReferences, symbolToSymbolReferences, inflight,
                 sent, refLog, logged, gxl, outFile>>

\* for await ... of files is exhausted
FilesDone ==
  /\ pc = "files"
  /\ fileIdx = Len(files)
  /\ pc' = "mapping"
  /\ UNCHANGED <<inputVars, runVars, exitCode, childProcess, usingIdx,
                 files, fileIdx, docSymbols, symIdx, heap,
                 symbols, allReferences, symbolToSymbolReferences, inflight,
                 sent, refLog, logged, gxl, outFile>>

\* ------------------------------------------------- mapping the references

\* lodash sortBy(array, s => symbolSizes[s.kind]): a stable sort, returned as
\* a new array
RECURSIVE SortBySize(_)
SortBySize(syms) ==
  IF syms = <<>> THEN <<>>
  ELSE LET least == CHOOSE i \in 1..Len(syms) :
                      \A j \in 1..Len(syms) :
                        \/ symbolSizes(heap[syms[i]].kind) < symbolSizes(heap[syms[j]].kind)
                        \/ /\ symbolSizes(heap[syms[i]].kind) = symbolSizes(heap[syms[j]].kind)
                           /\ i <= j
       IN <<syms[least]>>
            \o SortBySize([k \in 1..(Len(syms) - 1) |->
                             IF k < least THEN syms[k] ELSE syms[k + 1]])

\* The array documentSymbols.find runs on: sortBy sorts a copy
\* (documentSymbols.slice(0)) and its result is not used.
SearchedSymbols(documentSymbols) == documentSymbols

\* Variant that attributes a reference no symbol contains to the first symbol
\* of the file
ReferencingSymbolOrFirst(reference) ==
  LET documentSymbols == SearchedSymbols(StoreGet(symbols, reference.uri))
      hits == {i \in 1..Len(documentSymbols) :
                 RangeContains(SymbolRange(heap[documentSymbols[i]]), reference.range)}
  IN IF documentSymbols = <<>> THEN NoSymbolRef
     ELSE IF hits = {} THEN documentSymbols[1]
     ELSE documentSymbols[CHOOSE i \in hits : \A j \in hits : i <= j]

\* documentSymbols.find(symbol => range(symbol).contains(referenceRange)),
\* NoSymbolRef for undefined
ReferencingSymbol(reference) ==
  LET documentSymbols == SearchedSymbols(StoreGet(symbols, reference.uri))
      hits == {i \in 1..Len(documentSymbols) :
                 RangeContains(SymbolRange(heap[documentSymbols[i]]), reference.range)}
  IN IF hits = {} THEN NoSymbolRef
     ELSE documentSymbols[CHOOSE i \in hits : \A j \in hits : i <= j]

\* Whether the loop body reaches the lookup for this reference
IsLookedUp(reference) ==
  /\ ~IsIgnored(FileURLToPath(reference.uri))
  /\ StoreHas(symbols, reference.uri)

\* What one reference of a definition makes the loop log
RECURSIVE MappingLog(_, _)
MappingLog(def, references) ==
  IF references = <<>> THEN <<>>
  ELSE LET reference == Head(references)
           by == ReferencingSymbol(reference)
       IN (IF ~IsLookedUp(reference) THEN <<>>
           ELSE IF by = NoSymbolRef
                THEN <<LogEntry("warn", "was not within any symbol", def, by, reference)>>
                ELSE (IF getGXLSymbolKind(heap[by]) = NONE
                      THEN <<LogEntry("info", "excluded", def, by, reference)>>
                      ELSE <<>>)
                     \o <<LogEntry("success", "Mapped reference", def, by, reference)>>)
          \o MappingLog(def, Tail(references))

\* referencingSymbols of one definition
RECURSIVE ReferencingSymbols(_)
ReferencingSymbols(references) ==
  IF references = <<>> THEN <<>>
  ELSE LET reference == Head(references)
       IN (IF IsLookedUp(reference) /\ ReferencingSymbol(reference) # NoSymbolRef
           THEN <<ReferencingSymbol(reference)>> ELSE <<>>)
          \o ReferencingSymbols(Tail(references))

RECURSIVE FullMappingLog(_)
FullMappingLog(entries) ==
  IF entries = <<>> THEN <<>>
  ELSE MappingLog(Head(entries).def, Head(entries).refs) \o FullMappingLog(Tail(entries))

\* for (const [definitionSymbol, references] of allReferences) { ... }
MapReferences ==
  /\ pc = "mapping"
  /\ symbolToSymbolReferences' =
       [i \in 1..Len(allReferences) |->
          [def |-> allReferences[i].def,
           syms |-> ReferencingSymbols(allReferences[i].refs)]]
  /\ logged' = logged \o FullMappingLog(allReferences)
  /\ pc' = "serializing"
  /\ UNCHANGED <<inputVars, runVars, exitCode, childProcess, usingIdx,
                 files, fileIdx, docSymbols, symIdx, heap,
                 symbols, allReferences, inflight, sent, refLog, gxl, outFile>>


\* ------------------------------------------------------------------ asGXL

\* createGXLEdge: the edge element, its id a hash of {from, to, type} taken as
\* collision free.  child and parent name the symbol objects the two ids were
\* computed from; they are not part of the element.
createGXLEdge(from, to, type, child, parent) ==
  [from |-> from, to |-> to, type |-> type, id |-> <<from, to, type>>,
   child |-> child, parent |-> parent]

\* createGXLNode with its four attributes
createGXLNode(id, type, name, line, column, path) ==
  [id |-> id, type |-> type, name |-> name, line |-> line, column |-> column,
   path |-> path]

\* The (uri, symbol) pairs of the two nested loops, in iteration order
RECURSIVE StoredSymbols(_)
StoredSymbols(st) ==
  IF st = <<>> THEN <<>>
  ELSE [i \in 1..Len(Head(st).syms) |-> [uri |-> Head(st).uri, sym |-> Head(st).syms[i]]]
         \o StoredSymbols(Tail(st))

\* Array.prototype.find over the symbols of one map entry, by index set
FirstOf(syms, hits) ==
  IF hits = {} THEN NoSymbolRef ELSE syms[CHOOSE i \in hits : \A j \in hits : i <= j]

\* symbols.find(s => s.name === symbol.containerName)
ContainerOf(uri, sym) ==
  LET syms == StoreGet(symbols, uri)
  IN FirstOf(syms, {i \in 1..Len(syms) : heap[syms[i]].name = heap[sym].containerName})

\* symbols.find(s => s.kind === SymbolKind.File &&
\*                   s.name === path.relative(rootPath, fileURLToPath(uri)))
FileSymbolOf(uri) ==
  LET syms == StoreGet(symbols, uri)
  IN FirstOf(syms, {i \in 1..Len(syms) :
                      /\ heap[syms[i]].kind = "File"
                      /\ <<heap[syms[i]].name>> = Relative(rootPath, FileURLToPath(uri), cwd)})

\* Whether the File branch of asGXL reaches symbolsByFile.get(parentDirectoryUri)
LooksUpParent(uri) ==
  LET filePath == FileURLToPath(uri)
  IN /\ ~IsOutside(Relative(rootPath, filePath, cwd))
     /\ JoinDotDot(filePath) # rootPath

ParentUri(uri) == PathToFileURL(JoinDotDot(FileURLToPath(uri)), cwd)

\* The edges one symbol makes asGXL append to the graph element before its
\* node: the Enclosing edge of a File symbol to its parent directory.
AppendedEnclosing(uri, sym) ==
  IF /\ heap[sym].kind = "File"
     /\ LooksUpParent(uri)
     /\ StoreHas(symbols, ParentUri(uri))
  THEN LET parent == StoreGet(symbols, ParentUri(uri))[1]
       IN <<createGXLEdge(symbolId(heap[sym]), symbolId(heap[parent]),
                          "Enclosing", sym, parent)>>
  ELSE <<>>

\* The edges createGXLEdge builds for a symbol that is no File and whose
\* result asGXL drops (gxl.ts:161, 170): they never reach the graph element.
DroppedEnclosing(uri, sym) ==
  IF heap[sym].kind # "File" /\ ~IsDocumentSymbol(heap[sym])
  THEN LET target == IF ContainerOf(uri, sym) # NoSymbolRef
                     THEN ContainerOf(uri, sym) ELSE FileSymbolOf(uri)
       IN IF target = NoSymbolRef THEN <<>>
          ELSE <<createGXLEdge(symbolId(heap[sym]), symbolId(heap[target]),
                               "Enclosing", sym, target)>>
  ELSE <<>>

\* logger.error calls of the File branch
ParentErrors(uri, sym) ==
  IF heap[sym].kind = "File" /\ LooksUpParent(uri)
  THEN IF StoreHas(symbols, ParentUri(uri))
       THEN LET parents == StoreGet(symbols, ParentUri(uri))
            IN IF Len(parents) > 1 \/ heap[parents[1]].kind # "File"
               THEN <<[msg |-> "Expected parent dir to only have a single symbol", sym |-> sym]>>
               ELSE <<>>
       ELSE IF FileURLToPath(uri) # rootPath
            THEN <<[msg |-> "Expected parent dir symbol for symbol", sym |-> sym]>>
            ELSE <<>>
  ELSE <<>>

\* references.get(symbol) || []: the Map is keyed by the symbol object
ReferencesTo(sym) ==
  LET hits == {i \in 1..Len(symbolToSymbolReferences) :
                 symbolToSymbolReferences[i].def = sym}
  IN IF hits = {} THEN <<>>
     ELSE symbolToSymbolReferences[CHOOSE i \in hits : TRUE].syms

\* Variant that builds one edge per referencing symbol, however many of its
\* references map to it
DependencyEdgesCollapsed(sym) ==
  LET from == ReferencesTo(sym)
      keep == {k \in 1..Len(from) : \A j \in 1..(k - 1) : from[j] # from[k]}
      nth(n) == CHOOSE k \in keep : Cardinality({j \in keep : j < k}) = n - 1
  IN [n \in 1..Cardinality(keep) |->
        createGXLEdge(symbolId(heap[from[nth(n)]]), symbolId(heap[sym]),
                      "Source_Dependency", from[nth(n)], sym)]

\* The Source_Dependency edges of one symbol
DependencyEdges(sym) ==
  LET from == ReferencesTo(sym)
  IN [k \in 1..Len(from) |->
        createGXLEdge(symbolId(heap[from[k]]), symbolId(heap[sym]),
                      "Source_Dependency", from[k], sym)]

NodeOf(uri, sym) ==
  createGXLNode(symbolId(heap[sym]), getGXLSymbolKind(heap[sym]), heap[sym].name,
                SymbolRange(heap[sym]).start.line,
                SymbolRange(heap[sym]).start.character,
                Relative(rootPath, FileURLToPath(uri), cwd))

\* The symbols the loop does not skip (getGXLSymbolKind is defined)
RECURSIVE Exported(_)
Exported(pairs) ==
  IF pairs = <<>> THEN <<>>
  ELSE (IF getGXLSymbolKind(heap[Head(pairs).sym]) # NONE THEN <<Head(pairs)>> ELSE <<>>)
         \o Exported(Tail(pairs))

RECURSIVE GxlEdges(_)
GxlEdges(pairs) ==
  IF pairs = <<>> THEN <<>>
  ELSE AppendedEnclosing(Head(pairs).uri, Head(pairs).sym)
         \o DependencyEdges(Head(pairs).sym) \o GxlEdges(Tail(pairs))

RECURSIVE GxlDropped(_)
GxlDropped(pairs) ==
  IF pairs = <<>> THEN <<>>
  ELSE DroppedEnclosing(Head(pairs).uri, Head(pairs).sym) \o GxlDropped(Tail(pairs))

RECURSIVE GxlErrors(_)
GxlErrors(pairs) ==
  IF pairs = <<>> THEN <<>>
  ELSE ParentErrors(Head(pairs).uri, Head(pairs).sym) \o GxlErrors(Tail(pairs))

\* edgeNodeIds.push({from, to}): what the verification loop will see of an edge
RECURSIVE EdgeNodeIds(_)
EdgeNodeIds(pairs) ==
  IF pairs = <<>> THEN <<>>
  ELSE LET deps == DependencyEdges(Head(pairs).sym)
       IN [k \in 1..Len(deps) |-> [from |-> deps[k].from, to |-> deps[k].to]]
            \o EdgeNodeIds(Tail(pairs))

\* The Verify loop: one report per endpoint that is no node id
RECURSIVE Verify(_, _)
Verify(edgeNodeIds, nodeIds) ==
  IF edgeNodeIds = <<>> THEN <<>>
  ELSE (IF Head(edgeNodeIds).from \notin nodeIds
        THEN <<[end |-> "from", id |-> Head(edgeNodeIds).from]>> ELSE <<>>)
       \o (IF Head(edgeNodeIds).to \notin nodeIds
           THEN <<[end |-> "to", id |-> Head(edgeNodeIds).to]>> ELSE <<>>)
       \o Verify(Tail(edgeNodeIds), nodeIds)

asGXL ==
  LET pairs == Exported(StoredSymbols(symbols))
      nodes == [k \in 1..Len(pairs) |-> NodeOf(pairs[k].uri, pairs[k].sym)]
      nodeIds == {nodes[k].id : k \in 1..Len(nodes)}
      edgeNodeIds == EdgeNodeIds(pairs)
  IN [nodes |-> nodes,
      edges |-> GxlEdges(pairs),
      dropped |-> GxlDropped(pairs),
      nodeIds |-> nodeIds,
      edgeNodeIds |-> edgeNodeIds,
      reports |-> Verify(edgeNodeIds, nodeIds),
      nodesTotal |-> Cardinality(nodeIds),
      edgesTotal |-> Len(edgeNodeIds),
      errors |-> GxlErrors(pairs)]

\* The attributes createGXLNode is given for a symbol, each with the typeof of
\* its value; line and column are whole numbers
NodeAttributes(sym) ==
  << [name |-> "Source.Name", type |-> TypeOf(heap[sym].name), integer |-> FALSE],
     [name |-> "Source.Line", type |-> "number",
      integer |-> SymbolRange(heap[sym]).start.line \in Int],
     [name |-> "Source.Column", type |-> "number",
      integer |-> SymbolRange(heap[sym]).start.character \in Int],
     [name |-> "Source.Path", type |-> "string", integer |-> FALSE] >>

\* Variant that only rejects missing values
AttributeErrorMissingOnly(attr) ==
  IF attr.type \in {"undefined", "null"} THEN "has no value" ELSE NONE

\* What createGXLNode / addGXLAttribute throws for one attribute, NONE if
\* nothing
AttributeError(attr) ==
  IF attr.type \in {"undefined", "null"} THEN "has no value"
  ELSE IF attr.type = "number" /\ attr.integer THEN NONE
  ELSE IF attr.type = "string" THEN NONE
  ELSE "Invalid type"

\* What createGXLNode throws for a symbol: the error of its first attribute
\* that has one
NodeError(sym) ==
  LET attrs == NodeAttributes(sym)
      bad == {i \in 1..Len(attrs) : AttributeError(attrs[i]) # NONE}
  IN IF bad = {} THEN NONE
     ELSE AttributeError(attrs[CHOOSE i \in bad : \A j \in bad : i <= j])

\* What asGXL throws: the error of the first symbol of the loop that has one
EncodingError ==
  LET pairs == Exported(StoredSymbols(symbols))
      bad == {k \in 1..Len(pairs) : NodeError(pairs[k].sym) # NONE}
  IN IF bad = {} THEN NONE
     ELSE NodeError(pairs[CHOOSE k \in bad : \A j \in bad : k <= j].sym)

\* asGXL throws: catch, without writeFile
SerializeFails ==
  /\ pc = "serializing"
  /\ EncodingError # NONE
  /\ logged' = Append(logged, Fatal(EncodingError))
  /\ exitCode' = 1
  /\ pc' = "cleanup"
  /\ UNCHANGED <<inputVars, runVars, childProcess, usingIdx, files, fileIdx, docSymbols, symIdx, heap,
                 symbols, allReferences, symbolToSymbolReferences, inflight,
                 sent, refLog, gxl, outFile>>

\* const gxl = asGXL(...); await writeFile(outFile, gxl)
Serialize ==
  /\ pc = "serializing"
  /\ EncodingError = NONE
  /\ gxl' = asGXL
  /\ outFile' = "written"
  /\ pc' = "cleanup"
  /\ UNCHANGED <<inputVars, runVars, exitCode, childProcess, usingIdx,
                 files, fileIdx, docSymbols, symIdx, heap,
                 symbols, allReferences, symbolToSymbolReferences, inflight,
                 sent, refLog, logged>>

\* Where main() stands once the loop over using has run n functions
AfterUsing(n) == IF n = Len(using) THEN "done" ELSE "cleanup"

\* finally { for (const fn of using) await fn() }: the next function of using.
\* childProcess.kill() returns at once; the ShutdownRequest is sent and awaited.
Cleanup ==
  /\ pc = "cleanup"
  /\ usingIdx < Len(using)
  /\ usingIdx' = usingIdx + 1
  /\ IF using[usingIdx + 1] = "kill"
     THEN /\ childProcess' = "killed"
          /\ pc' = AfterUsing(usingIdx + 1)
          /\ UNCHANGED <<inflight, sent>>
     ELSE /\ Send([NoRequest EXCEPT !.type = "shutdown"])
          /\ pc' = "awaitShutdown"
          /\ UNCHANGED childProcess
  /\ UNCHANGED <<inputVars, runVars, exitCode,
                 files, fileIdx, docSymbols, symIdx, heap,
                 symbols, allReferences, symbolToSymbolReferences,
                 refLog, logged, gxl, outFile>>

\* The await of the ShutdownRequest ends: the provider answers, the request is
\* rejected because the connection is gone, or the promise stays pending and
\* the process ends with nothing left to wait for. In each case no request is
\* pending any more, process.exitCode is what it was and the loop goes on.
ShutdownSettles ==
  /\ pc = "awaitShutdown"
  /\ inflight' = NoRequest
  /\ pc' = AfterUsing(usingIdx)
  /\ UNCHANGED <<inputVars, runVars, exitCode, childProcess, usingIdx,
                 files, fileIdx, docSymbols, symIdx, heap,
                 symbols, allReferences, symbolToSymbolReferences,
                 sent, refLog, logged, gxl, outFile>>

\* main() is in or past its finally block
InFinally == pc \in {"cleanup", "awaitShutdown", "done"}

\* ------------------------------------------------------------------ catch

\* Variant in which the rejected call is issued again
ProviderFailsRetried ==
  /\ pc \in {"awaitInitialize", "awaitSymbols", "awaitReferences"}
  /\ inflight' = NoRequest
  /\ logged' = Append(logged, Fatal("provider call failed"))
  /\ exitCode' = 1
  /\ pc' = CASE pc = "awaitInitialize" -> "initialize"
              [] pc = "awaitSymbols" -> "files"
              [] pc = "awaitReferences" -> "references"
  /\ UNCHANGED <<inputVars, runVars, childProcess, usingIdx, files, fileIdx, docSymbols, symIdx, heap,
                 symbols, allReferences, symbolToSymbolReferences, sent, refLog,
                 gxl, outFile>>

\* An awaited connection.sendRequest rejects: control passes to the catch
\* block and from there to finally
ProviderFails ==
  /\ pc \in {"awaitInitialize", "awaitSymbols", "awaitReferences"}
  /\ run = 1   \* a repetition gets the answers of the first run
  /\ inflight' = NoRequest
  /\ logged' = Append(logged, Fatal("provider call failed"))
  /\ exitCode' = 1
  /\ pc' = "cleanup"
  /\ UNCHANGED <<inputVars, runVars, childProcess, usingIdx, files, fileIdx, docSymbols, symIdx, heap,
                 symbols, allReferences, symbolToSymbolReferences, sent, refLog,
                 gxl, outFile>>

Next ==
  \/ ProviderFails
  \/ SerializeFails
  \/ SendInitialize
  \/ RecvInitialize
  \/ SendDocumentSymbol
  \/ RecvDocumentSymbol
  \/ SkipUnexported
  \/ SkipImport
  \/ SendReferences
  \/ RecvReferences
  \/ AddFileSymbol
  \/ FilesDone
  \/ MapReferences
  \/ Serialize
  \/ Cleanup
  \/ ShutdownSettles

Spec == Init /\ [][Next]_vars

\* ------------------------------------- asGXL of src/unnamed/part_002

\* symbols.find(s => s.kind === SymbolKind.File &&
\*                   s.name === path.basename(filePath))
FileSymbolOfPart002(uri) ==
  LET syms == StoreGet(symbols, uri)
  IN FirstOf(syms, {i \in 1..Len(syms) :
                      /\ heap[syms[i]].kind = "File"
                      /\ heap[syms[i]].name = Basename(FileURLToPath(uri))})

\* The Enclosing edge this revision appends for a symbol: of a File symbol
\* that is not the root to the symbol of its parent directory, of a
\* SymbolInformation to its container or else to the file symbol
EnclosingPart002(uri, sym) ==
  IF heap[sym].kind = "File"
  THEN IF /\ Relative(rootPath, FileURLToPath(uri), cwd) # <<"">>
          /\ StoreHas(symbols, ParentUri(uri))
       THEN LET parent == StoreGet(symbols, ParentUri(uri))[1]
            IN <<createGXLEdge(symbolId(heap[sym]), symbolId(heap[parent]),
                               "Enclosing", sym, parent)>>
       ELSE <<>>
  ELSE IF IsDocumentSymbol(heap[sym]) THEN <<>>
  ELSE LET target == IF ContainerOf(uri, sym) # NoSymbolRef
                     THEN ContainerOf(uri, sym) ELSE FileSymbolOfPart002(uri)
       IN IF target = NoSymbolRef THEN <<>>
          ELSE <<createGXLEdge(symbolId(heap[sym]), symbolId(heap[target]),
                               "Enclosing", sym, target)>>

\* logger.error calls of this revision for a symbol
ErrorsPart002(uri, sym) ==
  IF heap[sym].kind = "File"
  THEN IF Relative(rootPath, FileURLToPath(uri), cwd) = <<"">> THEN <<>>
       ELSE IF StoreHas(symbols, ParentUri(uri))
       THEN LET parents == StoreGet(symbols, ParentUri(uri))
            IN IF Len(parents) # 1 \/ heap[parents[1]].kind # "File"
               THEN <<[msg |-> "Expected parent dir to only have a single symbol", sym |-> sym]>>
               ELSE <<>>
       ELSE IF FileURLToPath(uri) # rootPath
            THEN <<[msg |-> "Expected parent dir symbol for symbol", sym |-> sym]>>
            ELSE <<>>
  ELSE IF /\ ~IsDocumentSymbol(heap[sym])
          /\ ContainerOf(uri, sym) = NoSymbolRef
          /\ FileSymbolOfPart002(uri) = NoSymbolRef
       THEN <<[msg |-> "Expected document symbols for file", sym |-> sym]>>
       ELSE <<>>

RECURSIVE GxlEdgesPart002(_)
GxlEdgesPart002(pairs) ==
  IF pairs = <<>> THEN <<>>
  ELSE EnclosingPart002(Head(pairs).uri, Head(pairs).sym)
         \o DependencyEdges(Head(pairs).sym) \o GxlEdgesPart002(Tail(pairs))

RECURSIVE GxlErrorsPart002(_)
GxlErrorsPart002(pairs) ==
  IF pairs = <<>> THEN <<>>
  ELSE ErrorsPart002(Head(pairs).uri, Head(pairs).sym) \o GxlErrorsPart002(Tail(pairs))

\* What this revision throws for a symbol: for a File symbol outside the root,
\* else what createGXLNode throws
NodeErrorPart002(uri, sym) ==
  IF /\ heap[sym].kind = "File"
     /\ IsOutside(Relative(rootPath, FileURLToPath(uri), cwd))
  THEN "File outside the root made it into the index"
  ELSE NodeError(sym)

EncodingErrorPart002 ==
  LET pairs == Exported(StoredSymbols(symbols))
      bad == {k \in 1..Len(pairs) : NodeErrorPart002(pairs[k].uri, pairs[k].sym) # NONE}
      first == CHOOSE k \in bad : \A j \in bad : k <= j
  IN IF bad = {} THEN NONE ELSE NodeErrorPart002(pairs[first].uri, pairs[first].sym)

\* asGXL of this revision: every appended edge is pushed to edgeNodeIds
asGXLPart002 ==
  LET pairs == Exported(StoredSymbols(symbols))
      nodes == [k \in 1..Len(pairs) |-> NodeOf(pairs[k].uri, pairs[k].sym)]
      nodeIds == {nodes[k].id : k \in 1..Len(nodes)}
      edges == GxlEdgesPart002(pairs)
      edgeNodeIds == [k \in 1..Len(edges) |-> [from |-> edges[k].from, to |-> edges[k].to]]
  IN [nodes |-> nodes,
      edges |-> edges,
      dropped |-> <<>>,
      nodeIds |-> nodeIds,
      edgeNodeIds |-> edgeNodeIds,
      reports |-> Verify(edgeNodeIds, nodeIds),
      nodesTotal |-> Cardinality(nodeIds),
      edgesTotal |-> Len(edgeNodeIds),
      errors |-> GxlErrorsPart002(pairs)]

SerializeFailsPart002 ==
  /\ pc = "serializing"
  /\ EncodingErrorPart002 # NONE
  /\ logged' = Append(logged, Fatal(EncodingErrorPart002))
  /\ exitCode' = 1
  /\ pc' = "cleanup"
  /\ UNCHANGED <<inputVars, runVars, childProcess, usingIdx, files, fileIdx, docSymbols, symIdx, heap,
                 symbols, allReferences, symbolToSymbolReferences, inflight,
                 sent, refLog, gxl, outFile>>

SerializePart002 ==
  /\ pc = "serializing"
  /\ EncodingErrorPart002 = NONE
  /\ gxl' = asGXLPart002
  /\ outFile' = "written"
  /\ pc' = "cleanup"
  /\ UNCHANGED <<inputVars, runVars, exitCode, childProcess, usingIdx,
                 files, fileIdx, docSymbols,
                 symIdx, heap, symbols, allReferences, symbolToSymbolReferences,
                 inflight, sent, refLog, logged>>

\* main() of lspindex.ts with the asGXL of this revision
NextPart002 ==
  \/ ProviderFails
  \/ SendInitialize
  \/ RecvInitialize
  \/ SendDocumentSymbol
  \/ RecvDocumentSymbol
  \/ SkipUnexported
  \/ SkipImport
  \/ SendReferences
  \/ RecvReferences
  \/ AddFileSymbol
  \/ FilesDone
  \/ MapReferences
  \/ SerializeFailsPart002
  \/ SerializePart002
  \/ Cleanup
  \/ ShutdownSettles

SpecPart002 == Init /\ [][NextPart002]_vars

\* A second run of the pipeline over the same files, provider answers and
\* options, the files enumerated in any order.
Rerun ==
  /\ pc = "done"
  /\ run = 1
  /\ exitCode = 0
  /\ run' = 2
  /\ prevGxl' = gxl
  /\ files' \in Orders(Range(files))
  /\ pc' = "initialize"
  /\ fileIdx' = 0
  /\ docSymbols' = <<>>
  /\ symIdx' = 0
  /\ heap' = EmptyHeap
  /\ symbols' = <<>>
  /\ allReferences' = <<>>
  /\ symbolToSymbolReferences' = <<>>
  /\ inflight' = NoRequest
  /\ sent' = <<>>
  /\ logged' = <<>>
  /\ gxl' = EmptyGxl
  /\ outFile' = "absent"
  /\ childProcess' = "running"
  /\ usingIdx' = 0
  /\ UNCHANGED <<inputVars, refLog, exitCode>>

SpecRerun == Init /\ [][Next \/ Rerun]_vars


\* ================================================================= claims

\* The graph has been emitted
Emitted == InFinally /\ outFile = "written"

\* The files whose symbols the run has stored so far
Collected ==
  {files[k] : k \in 1..(IF pc \in {"references", "awaitReferences"}
                        THEN fileIdx + 1 ELSE fileIdx)}

Uri(path) == PathToFileURL(path, cwd)

EnclosingEdges == {e \in Range(gxl.edges) : e.type = "Enclosing"}
DependencyEdgeSet == {e \in Range(gxl.edges) : e.type = "Source_Dependency"}

\* C1: once the graph is emitted, every discovered file has its whole-file
\* symbol in the Symbol Store entry of the file, and a node of type File whose
\* Source.Name is the base name of the file.
C1_EveryFileHasFileNode ==
  Emitted =>
    \A file \in Range(files) :
      /\ \E sym \in Range(StoreGet(symbols, Uri(file))) :
           heap[sym] = FileSymbol(file, rootPath, cwd)
      /\ \E n \in Range(gxl.nodes) :
           /\ n.type = "File"
           /\ n.name = Basename(file)
           /\ n.path = Relative(rootPath, file, cwd)


\* ------------------------------------------------------------------- C2

\* The "Mapped reference" entries of the log: one per reference the mapper
\* attributed to a referencing symbol
Mappings == {m \in Range(logged) : m.msg = "Mapped reference"}

\* x lies strictly inside y
StrictlyInside(x, y) == RangeContains(y, x) /\ x # y

\* C2: the symbol the mapper selects for a reference contains the reference,
\* and no symbol of the target file that contains the reference has a smaller
\* range, whatever the order of the provider's list.
C2_SmallestEnclosingSelected ==
  \A m \in Mappings :
    /\ RangeContains(SymbolRange(heap[m.by]), m.reference.range)
    /\ \A other \in Range(StoreGet(symbols, m.reference.uri)) :
         RangeContains(SymbolRange(heap[other]), m.reference.range)
           => ~StrictlyInside(SymbolRange(heap[other]), SymbolRange(heap[m.by]))

\* ------------------------------------------------------------------- C3

\* The container the claim calls resolved: the symbol of the same file that
\* containerName names, or else the file symbol of the file.
ResolvedContainer(uri, sym) ==
  IF ContainerOf(uri, sym) # NoSymbolRef THEN ContainerOf(uri, sym) ELSE FileSymbolOf(uri)

\* C3: every stored symbol that is no file symbol and whose container resolves
\* has exactly one Enclosing edge in the emitted graph, from its node id to the
\* node id of the resolved container.
C3_OneEnclosingEdgePerSymbol ==
  Emitted =>
    \A k \in 1..Len(StoredSymbols(symbols)) :
      LET uri == StoredSymbols(symbols)[k].uri
          sym == StoredSymbols(symbols)[k].sym
      IN (heap[sym].kind # "File" /\ ResolvedContainer(uri, sym) # NoSymbolRef)
           => /\ Cardinality({i \in 1..Len(gxl.edges) :
                                /\ gxl.edges[i].type = "Enclosing"
                                /\ gxl.edges[i].from = symbolId(heap[sym])}) = 1
              /\ \E e \in EnclosingEdges :
                   /\ e.from = symbolId(heap[sym])
                   /\ e.to = symbolId(heap[ResolvedContainer(uri, sym)])

\* ------------------------------------------------------------------- C4

\* The directories from the directory of a file up to the project root
DirectoryChain(file) ==
  {SubSeq(file, 1, n) : n \in Len(rootPath)..(Len(file) - 1)}

\* The depth of a file under the root: the number of those directories
Depth(file) == Len(Relative(rootPath, file, cwd))

\* The synthetic directory symbols in the store, as (uri, symbol) pairs
DirectoryPairs ==
  LET pairs == StoredSymbols(symbols)
  IN {k \in 1..Len(pairs) : pairs[k].sym.idx = 0}

\* C4: the store holds exactly d directory symbols for the directory chain of
\* every collected file at depth d, one per level up to the root, and no
\* directory symbol besides those of the chains of the collected files.
C4_ExactlyDepthDirectorySymbols ==
  LET pairs == StoredSymbols(symbols)
  IN /\ \A file \in Collected :
          Cardinality({k \in DirectoryPairs :
                         FileURLToPath(pairs[k].uri) \in DirectoryChain(file)}) = Depth(file)
     /\ \A k \in DirectoryPairs :
          \E file \in Collected : FileURLToPath(pairs[k].uri) \in DirectoryChain(file)


\* ------------------------------------------------------------------- C5

\* An Enclosing edge of the graph leads from a File node at path child to the
\* node of the directory symbol stored for path parent
HasEnclosing(child, parent) ==
  \E e \in EnclosingEdges :
    /\ \E n \in Range(gxl.nodes) :
         n.id = e.from /\ n.type = "File" /\ n.path = Relative(rootPath, child, cwd)
    /\ StoreHas(symbols, Uri(parent))
    /\ StoreGet(symbols, Uri(parent)) # <<>>
    /\ e.to = symbolId(heap[StoreGet(symbols, Uri(parent))[1]])

\* C5: in the emitted graph the Enclosing edges lead from the File node of
\* every discovered file through every intermediate directory node to the node
\* of the project root, and no Enclosing edge originates from the root node.
C5_EnclosingChainReachesRoot ==
  Emitted =>
    /\ \A file \in Range(files) :
         \A n \in (Len(rootPath) + 1)..Len(file) :
           HasEnclosing(SubSeq(file, 1, n), SubSeq(file, 1, n - 1))
    /\ \A e \in EnclosingEdges :
         StoreHas(symbols, Uri(rootPath))
           => \A root \in Range(StoreGet(symbols, Uri(rootPath))) :
                e.from # symbolId(heap[root])

\* ------------------------------------------------------------------- C6

\* The endpoint ids of the emitted edges that are no node ids, as the reports
\* the validation pass owes
RECURSIVE OwedReports(_)
OwedReports(edges) ==
  IF edges = <<>> THEN <<>>
  ELSE (IF Head(edges).from \notin gxl.nodeIds
        THEN <<[end |-> "from", id |-> Head(edges).from]>> ELSE <<>>)
       \o (IF Head(edges).to \notin gxl.nodeIds
           THEN <<[end |-> "to", id |-> Head(edges).to]>> ELSE <<>>)
       \o OwedReports(Tail(edges))

\* C6: the validation pass examines every edge of the emitted graph, Enclosing
\* and Source_Dependency alike, reports every endpoint that is no node id, and
\* the edge total it reports is the number of edges emitted.
C6_ValidationCoversEveryEdge ==
  Emitted =>
    /\ gxl.edgesTotal = Len(gxl.edges)
    /\ \A e \in Range(gxl.edges) :
         \E v \in Range(gxl.edgeNodeIds) : v.from = e.from /\ v.to = e.to
    /\ Range(gxl.reports) = Range(OwedReports(gxl.edges))

\* ------------------------------------------------------------------- C7

\* C7: two different symbols of the Symbol Store never get the same node id.
C7_NodeIdsUnique ==
  LET pairs == StoredSymbols(symbols)
  IN \A i, j \in 1..Len(pairs) :
       i # j => symbolId(heap[pairs[i].sym]) # symbolId(heap[pairs[j].sym])

\* ------------------------------------------------------------------- C8

NodeSet(g) == Range(g.nodes)
EdgeSet(g) == {[from |-> e.from, to |-> e.to, type |-> e.type] : e \in Range(g.edges)}

\* C8: a second run over the same files, provider answers and options, with
\* the files enumerated in any order, emits the same nodes and the same edges
\* as the first.
C8_RerunSameGraph ==
  (run = 2 /\ Emitted) =>
    /\ NodeSet(gxl) = NodeSet(prevGxl)
    /\ EdgeSet(gxl) = EdgeSet(prevGxl)


\* ------------------------------------------------------------------- C9

\* The symbol objects the provider has returned so far whose declaration line
\* (the line of the anchor) contains the import keyword
ImportBindings ==
  {r \in DOMAIN heap :
     /\ r.idx > 0
     /\ r.idx <= Len(ProgramSymbols(programs[r.path], Uri(r.path)))
     /\ ImportRegexTest(LineContent(AnchorRange(heap[r]).start.line))}

\* C9: no reference query is ever sent for a symbol whose declaration line
\* contains the import keyword, no reference list is recorded for it, and the
\* emitted graph has no Source_Dependency edge whose target is that symbol.
C9_NoQueryOnImportLine ==
  \A r \in ImportBindings :
    /\ \A i \in 1..Len(sent) : sent[i].symbol # r
    /\ \A i \in 1..Len(allReferences) : allReferences[i].def # r
    /\ \A e \in DependencyEdgeSet : e.parent # r

\* A run that met an import binding, sent a reference query for another symbol
\* of the same file and emitted a Source_Dependency edge
C9_Witness ==
  /\ Emitted
  /\ DependencyEdgeSet # {}
  /\ \E r \in ImportBindings :
       \E i \in 1..Len(sent) :
         sent[i].type = "references" /\ sent[i].symbol.path = r.path

\* ------------------------------------------------------------------ C10

\* The symbol as the provider returned it, before main() touched it
ProviderSymbol(r) == ProgramSymbols(programs[r.path], Uri(r.path))[r.idx]

\* The keyword, if any, that the text at the anchor of a symbol starts with
KeywordAt(s) ==
  LET text == Slice(LineContent(AnchorRange(s).start.line), AnchorRange(s).start.character)
  IN IF StartsWith(text, Def_) THEN Def_
     ELSE IF StartsWith(text, Class_) THEN Class_
     ELSE <<>>

\* C10: a reference query for a symbol whose anchor text starts with "def " or
\* "class " is sent at the column right after the keyword and its separator,
\* the column of the first character of the identifier.
C10_QueryAtIdentifier ==
  \A i \in 1..Len(sent) :
    (sent[i].type = "references" /\ KeywordAt(ProviderSymbol(sent[i].symbol)) # <<>>)
      => LET s == ProviderSymbol(sent[i].symbol)
             column == AnchorRange(s).start.character + Len(KeywordAt(s))
         IN /\ sent[i].position.line = AnchorRange(s).start.line
            /\ sent[i].position.character = column
            /\ LineContent(sent[i].position.line)[sent[i].position.character + 1]
                 = LineContent(AnchorRange(s).start.line)[column + 1]

\* ------------------------------------------------------------------ C11

\* The mapping loop has run to its end
MappingDone == pc = "serializing" \/ Emitted

\* The references the provider returned, as (definition index, reference index)
ProviderReferences ==
  {p \in (1..Len(allReferences)) \X (1..MaxRefs) : p[2] <= Len(allReferences[p[1]].refs)}

ReferenceAt(p) == allReferences[p[1]].refs[p[2]]

\* The target file of the reference is collected and not ignored
IsResolvable(reference) ==
  StoreHas(symbols, reference.uri) /\ ~IsIgnored(FileURLToPath(reference.uri))

\* The reference is resolvable and no stored symbol of its file contains it
IsUnmatched(reference) ==
  /\ IsResolvable(reference)
  /\ \A s \in Range(StoreGet(symbols, reference.uri)) :
       ~RangeContains(SymbolRange(heap[s]), reference.range)

Warnings == {n \in 1..Len(logged) : logged[n].level = "warn"}

\* C11: a reference contained in no symbol of its collected, non-ignored
\* target file produces exactly one warning and no edge, and the loop goes on:
\* every other resolvable reference is mapped and has its edge in the graph.
C11_UnmatchedReferenceWarnsOnce ==
  MappingDone =>
    /\ Cardinality(Warnings) =
         Cardinality({p \in ProviderReferences : IsUnmatched(ReferenceAt(p))})
    /\ \A p \in ProviderReferences :
         IsUnmatched(ReferenceAt(p)) =>
           /\ \E n \in Warnings :
                /\ logged[n].def = allReferences[p[1]].def
                /\ logged[n].reference = ReferenceAt(p)
           /\ \A m \in Mappings :
                ~(m.def = allReferences[p[1]].def /\ m.reference = ReferenceAt(p))
    /\ Cardinality({n \in 1..Len(logged) : logged[n].msg = "Mapped reference"}) =
         Cardinality({p \in ProviderReferences :
                        IsResolvable(ReferenceAt(p)) /\ ~IsUnmatched(ReferenceAt(p))})
    /\ Emitted =>
         Cardinality({i \in 1..Len(gxl.edges) : gxl.edges[i].type = "Source_Dependency"}) =
           Cardinality({p \in ProviderReferences :
                          IsResolvable(ReferenceAt(p)) /\ ~IsUnmatched(ReferenceAt(p))})

\* A run that warned about one reference, mapped another one after it and
\* emitted the graph
C11_Witness ==
  /\ Emitted
  /\ \E n \in Warnings :
       \E k \in (n + 1)..Len(logged) : logged[k].msg = "Mapped reference"
  /\ DependencyEdgeSet # {}

\* ------------------------------------------------------------------ C12

\* Symbol Store population has completed for all discovered files: every file
\* has had its loop iteration, and its symbols and the symbols of its
\* directories up to the root are stored
PopulationComplete ==
  /\ fileIdx = Len(files)
  /\ \A file \in Range(files) :
       /\ StoreHas(symbols, Uri(file))
       /\ \A dir \in DirectoryChain(file) : StoreHas(symbols, Uri(dir))

\* The Reference Mapper has started
MapperStarted ==
  \/ pc \in {"mapping", "serializing"}
  \/ symbolToSymbolReferences # <<>>
  \/ Mappings # {}
  \/ Warnings # {}

\* C12: the Reference Mapper runs only after Symbol Store population has
\* completed for all discovered files, and once it has run every reference
\* into a discovered, non-ignored file was looked up in the symbols of that
\* file, whether the file was visited before or after the definition's file.
C12_MappingAfterPopulation ==
  /\ MapperStarted => PopulationComplete
  /\ MappingDone =>
       \A p \in ProviderReferences :
         (/\ FileURLToPath(ReferenceAt(p).uri) \in Range(files)
          /\ ~IsIgnored(FileURLToPath(ReferenceAt(p).uri)))
           => \E n \in 1..Len(logged) :
                /\ logged[n].level \in {"warn", "success"}
                /\ logged[n].def = allReferences[p[1]].def
                /\ logged[n].reference = ReferenceAt(p)

\* A reference of a definition in the first file into the second file, which
\* was visited later, has been mapped to a symbol of the second file
C12_Witness ==
  /\ Emitted
  /\ Len(files) = 2
  /\ \E m \in Mappings :
       /\ m.def.path = files[1]
       /\ m.reference.uri = Uri(files[2])
       /\ m.by.path = files[2]

\* ------------------------------------------------------------------ C13

\* A provider call has failed
ProviderFailed ==
  \E n \in 1..Len(logged) :
    logged[n].level = "fatal" /\ logged[n].msg = "provider call failed"

\* The initialize, symbol and reference queries sent so far
RECURSIVE Queries(_)
Queries(requests) ==
  IF requests = <<>> THEN <<>>
  ELSE (IF Head(requests).type \in {"initialize", "documentSymbol", "references"}
        THEN <<Head(requests)>> ELSE <<>>) \o Queries(Tail(requests))

\* C13: once a provider call has failed the run is over with a non-zero exit
\* code and without output document, and from then on no query is sent (the
\* failed one is not repeated, no later one is issued) and nothing is written.
C13_ProviderFailureAborts ==
  /\ [](ProviderFailed =>
         /\ exitCode # 0
         /\ InFinally
         /\ Queries(<<inflight>>) = <<>>
         /\ outFile = "absent"
         /\ gxl = EmptyGxl)
  /\ [][ProviderFailed =>
         /\ Queries(sent') = Queries(sent)
         /\ outFile' = outFile
         /\ symbols' = symbols]_vars

\* A reference query failed after earlier queries had succeeded, with files
\* still to visit, and the run has ended
C13_Witness ==
  /\ ProviderFailed
  /\ pc = "done"
  /\ Last(Queries(sent)).type = "references"
  /\ allReferences # <<>>
  /\ fileIdx < Len(files) - 1

\* ------------------------------------------------------------------ C14

\* main() has gone through asGXL: it has left the try block, having had a
\* file pattern, and no provider call had failed
EncodingAttempted == InFinally /\ filePattern /\ ~ProviderFailed

\* Some symbol of the graph has a missing attribute or one that is neither a
\* whole number nor text
HasUnrepresentableAttribute ==
  \E k \in 1..Len(StoredSymbols(symbols)) :
    LET s == heap[StoredSymbols(symbols)[k].sym]
    IN /\ s.kind \in {"File", "Module", "Class", "Field", "Property", "Method", "Function"}
       /\ \/ s.name \in {NONE, BooleanTrue}
          \/ SymbolRange(s).start.line \notin Int
          \/ SymbolRange(s).start.character \notin Int

\* C14: when a node attribute is missing or neither a whole number nor text
\* the run ends with a non-zero exit code and no output document; otherwise
\* encoding succeeds and the document is written.
C14_EncodingErrorIsFatal ==
  /\ EncodingAttempted =>
       IF HasUnrepresentableAttribute
       THEN exitCode # 0 /\ outFile = "absent" /\ gxl = EmptyGxl
       ELSE exitCode = 0 /\ outFile = "written"
  /\ outFile = "written" => ~HasUnrepresentableAttribute

\* A run over two files, the first well formed and queried for references,
\* the second with a symbol whose name is no text, has failed in asGXL
C14_Witness ==
  /\ EncodingAttempted
  /\ exitCode # 0
  /\ Len(files) = 2
  /\ allReferences # <<>>
  /\ \E n \in 1..Len(logged) : logged[n].msg = "Invalid type"

\* ------------------------------------------------------------------ C15

\* main() awaits the response to a request
Awaiting ==
  pc \in {"awaitInitialize", "awaitSymbols", "awaitReferences", "awaitShutdown"}

\* C15: at most one provider request is in flight: a request is pending
\* exactly while main() awaits its response, and a query is sent only when
\* none is pending, i.e. after the response to the previous one was received;
\* it is then the pending one.
C15_OneRequestInFlight ==
  /\ []((inflight # NoRequest) <=> Awaiting)
  /\ [](inflight # NoRequest => inflight = Last(sent))
  /\ [][Queries(sent') # Queries(sent) =>
         /\ inflight = NoRequest
         /\ Len(sent') = Len(sent) + 1
         /\ inflight' = Last(sent')]_vars

\* A reference query of the second file is pending, after the symbol queries
\* of both files and a reference query of the first file were answered
C15_Witness ==
  /\ pc = "awaitReferences"
  /\ fileIdx = 1
  /\ inflight.type = "references"
  /\ \E i \in 1..Len(sent) :
       sent[i].type = "references" /\ sent[i].uri = Uri(files[1])

\* ------------------------------------------------------------------ C16

\* C16: the emitted graph has exactly one node element for every node id, also
\* when two records of the Symbol Store yield the same id.
C16_OneNodePerId ==
  Emitted =>
    \A id \in gxl.nodeIds :
      Cardinality({k \in 1..Len(gxl.nodes) : gxl.nodes[k].id = id}) = 1

\* ------------------------------------------------------------------ C17

\* The log entries of the references of definition d that were mapped to the
\* referencing symbol r
MappedFrom(r, d) ==
  {n \in 1..Len(logged) :
     logged[n].msg = "Mapped reference" /\ logged[n].by = r /\ logged[n].def = d}

\* The Source_Dependency edges of the graph built from r to d
EdgesFrom(r, d) ==
  {i \in 1..Len(gxl.edges) :
     /\ gxl.edges[i].type = "Source_Dependency"
     /\ gxl.edges[i].child = r
     /\ gxl.edges[i].parent = d}

\* C17: the emitted graph has one Source_Dependency edge from S to D for every
\* reference to D that was mapped to S: k references from S to D give k edges,
\* each from the node id of S to the node id of D.
C17_OneEdgePerMappedReference ==
  Emitted =>
    /\ \A r, d \in DOMAIN heap :
         Cardinality(EdgesFrom(r, d)) = Cardinality(MappedFrom(r, d))
    /\ \A e \in DependencyEdgeSet :
         /\ e.from = symbolId(heap[e.child])
         /\ e.to = symbolId(heap[e.parent])
         /\ MappedFrom(e.child, e.parent) # {}

\* Two references of one definition were mapped to the same referencing symbol
\* and the graph has been emitted
C17_Witness ==
  /\ Emitted
  /\ \E r, d \in DOMAIN heap : Cardinality(MappedFrom(r, d)) = 2

\* ------------------------------------------------------------------ C18

\* The symbol objects received from the provider
ProviderSymbols ==
  {r \in DOMAIN heap :
     r.idx > 0 /\ r.idx <= Len(ProgramSymbols(programs[r.path], Uri(r.path)))}

\* C18: every symbol received from the provider keeps the values the provider
\* returned, and the line and column of its node are the start of the range
\* the provider reported.
C18_SymbolsNeverMutated ==
  /\ \A r \in ProviderSymbols : heap[r] = ProviderSymbol(r)
  /\ Emitted =>
       \A k \in 1..Len(StoredSymbols(symbols)) :
         LET r == StoredSymbols(symbols)[k].sym
         IN r \in ProviderSymbols =>
              \E n \in Range(gxl.nodes) :
                /\ n.name = ProviderSymbol(r).name
                /\ n.path = Relative(rootPath, r.path, cwd)
                /\ n.line = SymbolRange(ProviderSymbol(r)).start.line
                /\ n.column = SymbolRange(ProviderSymbol(r)).start.character

\* ------------------------------------------------------------------ C19

\* The kinds of the closed kind-to-node-type table
TableKinds == {"File", "Module", "Class", "Field", "Property", "Method", "Function"}

\* The symbols received from the provider whose kind is outside the table
ExcludedSymbols == {r \in ProviderSymbols : heap[r].kind \notin TableKinds}

\* C19: a symbol whose kind is outside the table gets no reference query, no
\* node, and is at neither end of an edge the graph builder creates, also when
\* it is the only symbol whose range contains a reference.
C19_ExcludedKindsNeverAppear ==
  \A r \in ExcludedSymbols :
    /\ \A i \in 1..Len(sent) : sent[i].symbol # r
    /\ \A i \in 1..Len(allReferences) : allReferences[i].def # r
    /\ \A m \in Mappings : m.by # r /\ m.def # r
    /\ \A n \in Range(gxl.nodes) :
         n.id # symbolId(heap[r])
           /\ ~(n.name = heap[r].name /\ n.path = Relative(rootPath, r.path, cwd))
    /\ \A e \in Range(gxl.edges) \cup Range(gxl.dropped) :
         /\ e.child # r /\ e.parent # r
         /\ e.from # symbolId(heap[r]) /\ e.to # symbolId(heap[r])

\* The graph is emitted, and a reference lay in the range of a symbol of an
\* excluded kind of a collected file
C19_Witness ==
  /\ Emitted
  /\ \E r \in ExcludedSymbols :
       \E p \in ProviderReferences :
         /\ ReferenceAt(p).uri = Uri(r.path)
         /\ RangeContains(SymbolRange(heap[r]), ReferenceAt(p).range)
         /\ IsUnmatched(ReferenceAt(p))

\* ------------------------------------------------------------------ C20

\* The node ids reached from ids along at most n Enclosing edges
RECURSIVE Enclosers(_, _)
Enclosers(ids, n) ==
  IF n = 0 THEN ids
  ELSE Enclosers(ids \cup {e.to : e \in {x \in EnclosingEdges : x.from \in ids}}, n - 1)

\* C20: in the emitted graph no Enclosing edge leads from a node to itself and
\* no chain of Enclosing edges leads back to the node it started from.
C20_EnclosingForest ==
  Emitted =>
    \A e \in EnclosingEdges :
      /\ e.from # e.to
      /\ e.from \notin Enclosers({e.to}, Cardinality(EnclosingEdges))

\* ------------------------------------------------------------------ C21

\* The ids of the node elements of the emitted graph
NodeIdsOf(graph) == {graph.nodes[k].id : k \in 1..Len(graph.nodes)}

\* C21: in every emitted graph both endpoints of every edge element, Enclosing
\* or Source_Dependency, are ids of node elements of the same graph, and the
\* verification loop reports no dangling endpoint.
C21_EdgesEndAtNodes ==
  Emitted =>
    /\ \A e \in Range(gxl.edges) :
         e.from \in NodeIdsOf(gxl) /\ e.to \in NodeIdsOf(gxl)
    /\ gxl.reports = <<>>

\* A graph with an Enclosing and a Source_Dependency edge is emitted, from a
\* run in which the provider also returned a symbol of an excluded kind
C21_Witness ==
  /\ Emitted
  /\ EnclosingEdges # {}
  /\ DependencyEdgeSet # {}
  /\ ExcludedSymbols # {}

\* ------------------------------------------------------------------ C22

\* C22: every edge element of one emitted document has an id different from the
\* id of every other edge element of the document, several Source_Dependency
\* edges between the same pair of symbols included.
C22_EdgeIdsUnique ==
  Emitted =>
    \A i, j \in 1..Len(gxl.edges) :
      i # j => gxl.edges[i].id # gxl.edges[j].id

\* ------------------------------------------------------------------ C23

\* The ShutdownRequest has been sent
ShutdownSent == \E i \in 1..Len(sent) : sent[i].type = "shutdown"

\* C23: on every exit path after the provider process was spawned the cleanup
\* sends the shutdown request while the provider process is still alive, that
\* is before childProcess.kill() is called, and a run that has ended has sent
\* it and has killed the process.
C23_ShutdownBeforeKill ==
  /\ [][(sent' # sent /\ Last(sent').type = "shutdown") =>
          childProcess = "running"]_vars
  /\ [](pc = "done" => ShutdownSent /\ childProcess = "killed")

=============================================================================
